---- MODULE Spec2Model ----
(***************************************************************************)
(* Model of the TinyTapeout multiplexer layout engine (py/tt.py):          *)
(*   - ModulePlacer: gen_grid, load_modules, place_modules and helpers     *)
(*   - Layout: _ply_expand, _ply_distribute, _ply_finalize                 *)
(* Python's None is modelled by the empty tuple <<>> and a present integer *)
(* v by the one-element tuple <<v>>.                                       *)
(***************************************************************************)
EXTENDS Integers, Sequences, FiniteSets, TLC

VARIABLES
    cfg,        \* cfg.tt.grid : [x |-> columns, y |-> rows]
    data,       \* data['modules'] : the descriptors read from the module file so far
    modules,    \* self.modules : sequence of ModuleSlot records
    grid,       \* self.grid : dict anchor cell -> index of the module in modules
    grid_free,  \* self.grid_free : set of free cells <<x, y>>
    order,      \* the modules place_modules still has to process, in order
    placed,     \* the modules whose _place_module call returned, in call order
    pc,         \* position of ModulePlacer.__init__: load / place / done / error
    err,        \* the exception that ended the run: [kind, mod]
    call        \* the last Layout._ply_* call and its outcome

vars == <<cfg, data, modules, grid, grid_free, order, placed, pc, err, call>>

----------------------------------------------------------------------------
(* Bounds of the model *)

\* longest module list loaded
MaxMods == 2

\* The grids (cfg.tt.grid) explored: the 4x2 grid and a full-width 32x4 grid.
Grids == { [x |-> 4, y |-> 2], [x |-> 32, y |-> 4] }

\* The values a module descriptor of the YAML file may carry.
InWidths  == {1, 2}
InHeights == {1, 2}
InXs      == {<<>>, <<15>>, <<18>>}
InYs      == {<<>>, <<1>>, <<2>>}

----------------------------------------------------------------------------
(* Program constants *)

\* offset of the right half of the grid, and the bit tested by _site_suitable
HalfOfs == 16

\* pos_x must be below this
XLimit == 32

ValidHeights == {1, 2}
ValidWidths  == {1, 2, 4, 8}

NoErr == [kind |-> "none", mod |-> 0]
NoCall == [op |-> "none", st |-> "none"]

----------------------------------------------------------------------------
(* ModuleSlot *)

ModuleSlot(mc) ==
    [pos_x |-> mc.x, pos_y |-> mc.y, width |-> mc.width, height |-> mc.height]

ModuleConfigs ==
    [x : InXs, y : InYs, width : InWidths, height : InHeights]

----------------------------------------------------------------------------
(* ModulePlacer.gen_grid *)

gen_grid(c) ==
    UNION { { <<x, y>>, <<x + HalfOfs, y>> } :
            x \in 0 .. (c.x \div 2) - 1, y \in 0 .. c.y - 1 }

\* The checks load_modules makes on one module; the kind of error or "none".
load_check(c, mod) ==
    IF mod.height \notin ValidHeights THEN "invalid_height"
    ELSE IF mod.width \notin ValidWidths THEN "invalid_width"
    ELSE IF mod.pos_x # <<>> /\
            (mod.pos_x[1] < 0 \/ mod.pos_x[1] >= XLimit \/
             (mod.pos_x[1] % HalfOfs) > c.x \div 2) THEN "invalid_x"
    ELSE IF mod.pos_y # <<>> /\
            (mod.pos_y[1] < 0 \/ mod.pos_y[1] >= c.y) THEN "invalid_y"
    ELSE "none"

----------------------------------------------------------------------------
(* Bit test of _site_suitable: (a ^ b) & 16 is non-zero iff bit 4 differs *)

Bit4(a) == (a \div HalfOfs) % 2

XorAnd16(a, b) == IF Bit4(a) # Bit4(b) THEN HalfOfs ELSE 0

_site_suitable_nofree(free, mod, pos_x, pos_y) ==
    /\ ~ (mod.height > 1 /\ pos_y % 2 = 0)
    /\ ~ (mod.width > 1 /\ XorAnd16(pos_x, pos_x + mod.width - 1) # 0)

_site_suitable_noodd(free, mod, pos_x, pos_y) ==
    /\ \A oy \in 0 .. mod.height - 1 : \A ox \in 0 .. mod.width - 1 :
          <<pos_x + ox, pos_y + oy>> \in free
    /\ ~ (mod.width > 1 /\ XorAnd16(pos_x, pos_x + mod.width - 1) # 0)

_site_suitable_nomid(free, mod, pos_x, pos_y) ==
    /\ \A oy \in 0 .. mod.height - 1 : \A ox \in 0 .. mod.width - 1 :
          <<pos_x + ox, pos_y + oy>> \in free
    /\ ~ (mod.height > 1 /\ pos_y % 2 = 0)

_site_suitable(free, mod, pos_x, pos_y) ==
    /\ \A oy \in 0 .. mod.height - 1 : \A ox \in 0 .. mod.width - 1 :
          <<pos_x + ox, pos_y + oy>> \in free
    /\ ~ (mod.height > 1 /\ pos_y % 2 = 0)
    /\ ~ (mod.width > 1 /\ XorAnd16(pos_x, pos_x + mod.width - 1) # 0)

----------------------------------------------------------------------------
(* The scans. Each returns [x, y, exc]: x = y = <<>> is (None, None); exc is *)
(* the exception the scan itself raises, "none" if it returns.             *)

Found(x, y) == [x |-> <<x>>, y |-> <<y>>, exc |-> "none"]
NotFound    == [x |-> <<>>, y |-> <<>>, exc |-> "none"]
Raised(e)   == [x |-> <<>>, y |-> <<>>, exc |-> e]

Min(S) == CHOOSE m \in S : \A n \in S : m <= n

RowScan_rightfirst(c) ==
    [i \in 1 .. 2 * (c.x \div 2) |->
        IF i <= c.x \div 2 THEN (i - 1) + HalfOfs ELSE i - 1 - c.x \div 2]

\* the scan order of one row: left half, then right half
RowScan(c) ==
    [i \in 1 .. 2 * (c.x \div 2) |->
        IF i <= c.x \div 2 THEN i - 1 ELSE (i - 1 - c.x \div 2) + HalfOfs]

_find_xy_for_module(c, free, mod) ==
    LET row == RowScan(c)
        n   == Len(row)
        \* position k of the row-major scan: row k \div n, column row[k % n + 1]
        hits == { k \in 0 .. n * c.y - 1 :
                    _site_suitable(free, mod, row[(k % n) + 1], k \div n) }
    IN  IF hits = {} THEN NotFound
        ELSE Found(row[(Min(hits) % n) + 1], Min(hits) \div n)

_find_y_for_module(c, free, mod) ==
    LET hits == { y \in 0 .. c.y - 1 : _site_suitable(free, mod, mod.pos_x[1], y) }
    IN  IF hits = {} THEN NotFound ELSE Found(mod.pos_x[1], Min(hits))

\* On a hit the function evaluates "return x, y" with no y in scope: NameError.
_find_x_for_module(c, free, mod) ==
    LET row  == RowScan(c)
        hits == { k \in 1 .. Len(row) : _site_suitable(free, mod, row[k], mod.pos_y[1]) }
    IN  IF hits = {} THEN NotFound ELSE Raised("NameError")

resolve_fallback(c, free, mod) ==
    IF mod.pos_x = <<>> /\ mod.pos_y = <<>> THEN _find_xy_for_module(c, free, mod)
    ELSE IF mod.pos_x = <<>> THEN _find_x_for_module(c, free, mod)
    ELSE IF mod.pos_y = <<>> THEN _find_y_for_module(c, free, mod)
    ELSE IF _site_suitable(free, mod, mod.pos_x[1], mod.pos_y[1])
         THEN Found(mod.pos_x[1], mod.pos_y[1])
    ELSE _find_xy_for_module(c, free, mod)

\* The anchor _place_module resolves for mod (lines 247-256).
resolve(c, free, mod) ==
    IF mod.pos_x = <<>> /\ mod.pos_y = <<>> THEN _find_xy_for_module(c, free, mod)
    ELSE IF mod.pos_x = <<>> THEN _find_x_for_module(c, free, mod)
    ELSE IF mod.pos_y = <<>> THEN _find_y_for_module(c, free, mod)
    ELSE IF _site_suitable(free, mod, mod.pos_x[1], mod.pos_y[1])
         THEN Found(mod.pos_x[1], mod.pos_y[1])
    ELSE NotFound

Footprint(x, y, w, h) ==
    { <<x + i, y + j>> : i \in 0 .. w - 1, j \in 0 .. h - 1 }

----------------------------------------------------------------------------
(* place_modules: buckets and the sort of _place_modules_group *)

\* the bucket place_modules appends m to
Bucket(m) ==
    IF m.pos_x # <<>> /\ m.pos_y # <<>> THEN "full_placed"
    ELSE IF m.pos_x # <<>> \/ m.pos_y # <<>> THEN "semi_placed"
    ELSE "auto_placed"

\* the indices of the modules of bucket b, in list order
SelectIdx(mods, b) ==
    LET F[i \in 0 .. Len(mods)] ==
            IF i = 0 THEN <<>>
            ELSE IF Bucket(mods[i]) = b THEN Append(F[i - 1], i) ELSE F[i - 1]
    IN  F[Len(mods)]

\* key (height, width) compared as Python compares tuples
KeyLess(a, b) ==
    a.height < b.height \/ (a.height = b.height /\ a.width < b.width)

\* sorted(..., reverse=True) is stable: equal keys keep their list order.
\* Insertion of index i into an already sorted sequence of indices.
InsertDesc(mods, s, i) ==
    LET before == { k \in 1 .. Len(s) : ~ KeyLess(mods[s[k]], mods[i]) }
        n == Cardinality(before)
    IN  SubSeq(s, 1, n) \o <<i>> \o SubSeq(s, n + 1, Len(s))

SortGroup(mods, idx) ==
    LET F[k \in 0 .. Len(idx)] ==
            IF k = 0 THEN <<>> ELSE InsertDesc(mods, F[k - 1], idx[k])
    IN  F[Len(idx)]

PlaceOrder(mods) ==
    SortGroup(mods, SelectIdx(mods, "full_placed")) \o
    SortGroup(mods, SelectIdx(mods, "semi_placed")) \o
    SortGroup(mods, SelectIdx(mods, "auto_placed"))

----------------------------------------------------------------------------
(* Layout: pin layouts. A string is a sequence of characters; a pin of an  *)
(* expanded layout is <<>> (None, a skip) or <<s>> with s its identifier.  *)

\* bounds of the Layout inputs
MaxEntries  == 3
MaxPins     == 4
MaxCoord    == 9
MaxOffset   == 2
MaxPitch    == 3
MaxStep     == 2
MaxTrackLen == 4

Digit(d) == <<"0", "1", "2", "3", "4", "5", "6", "7", "8", "9">>[d + 1]

RECURSIVE Str(_)
\* str(i)
Str(i) ==
    IF i < 0 THEN <<"-">> \o Str(0 - i)
    ELSE IF i < 10 THEN <<Digit(i)>>
    ELSE Str(i \div 10) \o <<Digit(i % 10)>>

\* n + '[' + str(i) + ']'
Indexed(n, i) == n \o <<"[">> \o Str(i) \o <<"]">>

\* n[hi] .. n[lo], one pin per i of range(hi, lo - 1, -1)
DownPins(n, hi, lo) ==
    [k \in 1 .. (IF hi >= lo THEN hi - lo + 1 ELSE 0) |-> << Indexed(n, hi - (k - 1)) >>]

\* one None per i of range(cnt)
SkipRun(cnt) == [k \in 1 .. (IF cnt > 0 THEN cnt ELSE 0) |-> <<>>]

UpPins(n, hi, lo) ==
    [k \in 1 .. (IF hi >= lo THEN hi - lo + 1 ELSE 0) |-> << Indexed(n, lo + (k - 1)) >>]

ExpandEntry_ascending(e) ==
    IF e.c.t = "none" THEN (IF e.n = <<>> THEN << <<>> >> ELSE << e.n >>)
    ELSE IF e.c.t = "int" THEN
        (IF e.n = <<>> THEN SkipRun(e.c.a) ELSE UpPins(e.n[1], e.c.a - 1, 0))
    ELSE \* "tuple"
        (IF e.n = <<>> THEN SkipRun(e.c.b)
         ELSE UpPins(e.n[1], e.c.a + e.c.b - 1, e.c.a))

\* what one entry (n, c) of a pin layout appends to rv
ExpandEntry(e) ==
    IF e.c.t = "none" THEN (IF e.n = <<>> THEN << <<>> >> ELSE << e.n >>)
    ELSE IF e.c.t = "int" THEN
        (IF e.n = <<>> THEN SkipRun(e.c.a) ELSE DownPins(e.n[1], e.c.a - 1, 0))
    ELSE \* "tuple"
        (IF e.n = <<>> THEN SkipRun(e.c.b)
         ELSE DownPins(e.n[1], e.c.a + e.c.b - 1, e.c.a))

\* [ret, exc]: the expanded layout, or the exception of the first entry that
\* is neither None, an int nor a tuple
_ply_expand(ply) ==
    LET F[k \in 0 .. Len(ply)] ==
            IF k = 0 THEN [ret |-> <<>>, exc |-> "none"]
            ELSE IF F[k - 1].exc # "none" THEN F[k - 1]
            ELSE IF ply[k].c.t \notin {"none", "int", "tuple"}
                 THEN [ret |-> <<>>, exc |-> "InvalidPinLayout"]
            ELSE [ret |-> F[k - 1].ret \o ExpandEntry(ply[k]), exc |-> "none"]
    IN  F[Len(ply)]

----------------------------------------------------------------------------
(* Layout._ply_distribute *)

RECURSIVE GenTracks(_, _, _)
\* the while loop of lines 469-472
GenTracks(p, end, t_pitch) ==
    IF p < end THEN <<p>> \o GenTracks(p + t_pitch, end, t_pitch) ELSE <<>>

Max2(a, b) == IF a > b THEN a ELSE b
Min2(a, b) == IF a < b THEN a ELSE b

\* Python's s[a:b:st], st # 0, on a sequence s (0-based indices a, b)
PySlice(s, a, b, st) ==
    LET n  == Len(s)
        lo == IF st > 0 THEN 0 ELSE 0 - 1
        hi == IF st > 0 THEN n ELSE n - 1
        a1 == IF a < 0 THEN Max2(a + n, lo) ELSE Min2(a, hi)
        b1 == IF b < 0 THEN Max2(b + n, lo) ELSE Min2(b, hi)
        cnt == IF st > 0
                 THEN (IF a1 < b1 THEN ((b1 - a1 - 1) \div st) + 1 ELSE 0)
                 ELSE (IF b1 < a1 THEN ((a1 - b1 - 1) \div (0 - st)) + 1 ELSE 0)
    IN  [k \in 1 .. cnt |-> s[a1 + (k - 1) * st + 1]]

_ply_distribute_shortend(a) ==
    LET p0     == (((a.start - a.offset) \div a.pitch) * a.pitch) + a.offset
        tracks == GenTracks(p0, a.end, a.pitch)
    IN  IF a.step <= 0 /\ a.n_pins - 1 = 0
           THEN [ret |-> <<>>, tracks |-> tracks, step |-> a.step,
                 exc |-> "ZeroDivisionError"]
        ELSE
           LET step == IF a.step <= 0 THEN (Len(tracks) - 1) \div (a.n_pins - 1)
                       ELSE a.step
               tracks_needed == (a.n_pins - 1) * step + 1
               i_start == (Len(tracks) - tracks_needed) \div 2
               i_end   == i_start + tracks_needed - 1
           IN  IF step = 0
                  THEN [ret |-> <<>>, tracks |-> tracks, step |-> step, exc |-> "TooManyTracks"]
                  ELSE [ret |-> PySlice(tracks, i_start, i_end, step),
                        tracks |-> tracks, step |-> step, exc |-> "none"]

\* [ret, exc] and the locals tracks and step; a = [n_pins, start, end, step,
\* offset, pitch] with offset and pitch the track data of the layer and axis
_ply_distribute(a) ==
    LET p0     == (((a.start - a.offset) \div a.pitch) * a.pitch) + a.offset
        tracks == GenTracks(p0, a.end, a.pitch)
    IN  IF a.step <= 0 /\ a.n_pins - 1 = 0
           THEN [ret |-> <<>>, tracks |-> tracks, step |-> a.step,
                 exc |-> "ZeroDivisionError"]
        ELSE
           LET step == IF a.step <= 0 THEN (Len(tracks) - 1) \div (a.n_pins - 1)
                       ELSE a.step
               tracks_needed == (a.n_pins - 1) * step + 1
               i_start == (Len(tracks) - tracks_needed) \div 2
               i_end   == i_start + tracks_needed
           IN  IF step = 0
                  THEN [ret |-> <<>>, tracks |-> tracks, step |-> step, exc |-> "TooManyTracks"]
                  ELSE [ret |-> PySlice(tracks, i_start, i_end, step),
                        tracks |-> tracks, step |-> step, exc |-> "none"]

----------------------------------------------------------------------------
(* Layout._ply_finalize *)

\* dict(pairs): one entry per key, the last pair of a key wins
DictOf(keys, vals, keep) ==
    LET K == { keys[k] : k \in keep }
    IN  [q \in K |-> vals[CHOOSE k \in keep :
                            keys[k] = q /\ \A j \in keep : keys[j] = q => j <= k]]

_ply_finalize_keepskips(pins, tracks) ==
    IF Len(pins) # Len(tracks) THEN [ret |-> <<>>, exc |-> "Mismatch"]
    ELSE [ret |-> DictOf(pins, tracks, 1 .. Len(pins)), exc |-> "none"]

\* [ret, exc]: the dict from pin (as <<identifier>>) to track
_ply_finalize(pins, tracks) ==
    IF Len(pins) # Len(tracks) THEN [ret |-> <<>>, exc |-> "Mismatch"]
    ELSE [ret |-> DictOf(pins, tracks, { k \in 1 .. Len(pins) : pins[k] # <<>> }),
          exc |-> "none"]

----------------------------------------------------------------------------
(* The Layout calls explored *)

Names == { <<>>, << <<"a">> >>, << <<"b">> >> }

WidthSpecs ==
    { [t |-> "none", a |-> 0, b |-> 0],
      [t |-> "int", a |-> 1, b |-> 0],
      [t |-> "int", a |-> 2, b |-> 0],
      [t |-> "int", a |-> 3, b |-> 0],
      [t |-> "tuple", a |-> 1, b |-> 2] }

BadWidthSpecs == { [t |-> "str", a |-> 0, b |-> 0] }

SeqsUpTo(S, n) == UNION { [1 .. k -> S] : k \in 0 .. n }

PinLayouts == SeqsUpTo([n : Names, c : WidthSpecs], MaxEntries)

AnyPinLayouts == SeqsUpTo([n : Names, c : WidthSpecs \cup BadWidthSpecs], MaxEntries)

\* the track lists _ply_finalize is given: evenly spaced, as _ply_distribute
\* returns them
TrackLists ==
    { [k \in 1 .. len |-> t0 + (k - 1) * d] :
        len \in 0 .. MaxTrackLen, t0 \in {0, 1}, d \in {1, 2} }

DistributeArgs ==
    [n_pins : 1 .. MaxPins, start : 0 .. MaxCoord, end : 0 .. MaxCoord,
     step : 0 .. MaxStep, offset : 0 .. MaxOffset, pitch : 1 .. MaxPitch]

Pending(op, args) == [op |-> op, st |-> "call", args |-> args]

\* the expanded layouts _ply_finalize is given
Expansions == { _ply_expand(ply).ret : ply \in PinLayouts }

\* the pending call the Layout is entered with
LayoutCall(c) ==
    \/ \E ply \in AnyPinLayouts : c = Pending("expand", [ply |-> ply])
    \/ \E a \in DistributeArgs : c = Pending("distribute", a)
    \/ \E e \in Expansions, t \in TrackLists :
          c = Pending("finalize", [pins |-> e, tracks |-> t])

Returned(c, r) ==
    [op |-> c.op, st |-> IF r.exc = "none" THEN "ret" ELSE "raise", args |-> c.args, out |-> r]

InitPly ==
    /\ cfg = [x |-> 2 * HalfOfs, y |-> 4]
    /\ data = <<>>
    /\ modules = <<>>
    /\ grid = <<>>
    /\ grid_free = gen_grid(cfg)
    /\ order = <<>>
    /\ placed = <<>>
    /\ pc = "layout"
    /\ err = NoErr
    /\ LayoutCall(call)

PlyExpand ==
    /\ call.st = "call" /\ call.op = "expand"
    /\ call' = Returned(call, _ply_expand(call.args.ply))
    /\ UNCHANGED <<cfg, data, modules, grid, grid_free, order, placed, pc, err>>

PlyDistribute ==
    /\ call.st = "call" /\ call.op = "distribute"
    /\ call' = Returned(call, _ply_distribute(call.args))
    /\ UNCHANGED <<cfg, data, modules, grid, grid_free, order, placed, pc, err>>

PlyFinalize ==
    /\ call.st = "call" /\ call.op = "finalize"
    /\ call' = Returned(call, _ply_finalize(call.args.pins, call.args.tracks))
    /\ UNCHANGED <<cfg, data, modules, grid, grid_free, order, placed, pc, err>>

NextPly == PlyExpand \/ PlyDistribute \/ PlyFinalize

SpecPly == InitPly /\ [][NextPly]_vars

----------------------------------------------------------------------------
(* ModulePlacer.__init__ as a state machine *)

Init ==
    /\ cfg \in Grids
    /\ data = <<>>
    /\ modules = <<>>
    /\ grid = <<>>
    /\ grid_free = gen_grid(cfg)
    /\ order = <<>>
    /\ placed = <<>>
    /\ pc = "load"
    /\ err = NoErr
    /\ call = NoCall

\* one iteration of the loop of load_modules
LoadModule ==
    /\ pc = "load"
    /\ Len(modules) < MaxMods
    /\ \E mc \in ModuleConfigs :
          LET mod == ModuleSlot(mc)
              chk == load_check(cfg, mod)
          IN  /\ data' = Append(data, mc)
              /\ modules' = Append(modules, mod)
              /\ IF chk = "none"
                    THEN pc' = "load" /\ err' = err
                    ELSE pc' = "error" /\ err' = [kind |-> chk, mod |-> Len(modules) + 1]
    /\ UNCHANGED <<cfg, grid, grid_free, order, placed, call>>

\* end of load_modules, and place_modules up to the first _place_module
StartPlace ==
    /\ pc = "load"
    /\ order' = PlaceOrder(modules)
    /\ pc' = IF modules = <<>> THEN "done" ELSE "place"
    /\ UNCHANGED <<cfg, data, modules, grid, grid_free, placed, err, call>>

PlaceModule_skip ==
    /\ pc = "place"
    /\ order # <<>>
    /\ LET i   == Head(order)
           mod == modules[i]
           r   == resolve(cfg, grid_free, mod)
       IN  IF r.exc # "none" \/ r.x = <<>> \/ r.y = <<>>
              THEN UNCHANGED <<modules, grid, grid_free, placed>>
              ELSE /\ modules' = [modules EXCEPT ![i].pos_x = r.x, ![i].pos_y = r.y]
                   /\ grid' = [p \in DOMAIN grid \cup {<<r.x[1], r.y[1]>>} |->
                                 IF p = <<r.x[1], r.y[1]>> THEN i ELSE grid[p]]
                   /\ grid_free' = grid_free \ Footprint(r.x[1], r.y[1], mod.width, mod.height)
                   /\ placed' = Append(placed, i)
    /\ order' = Tail(order)
    /\ pc' = IF Tail(order) = <<>> THEN "done" ELSE "place"
    /\ UNCHANGED <<cfg, data, err, call>>

\* one _place_module call
PlaceModule ==
    /\ pc = "place"
    /\ order # <<>>
    /\ LET i   == Head(order)
           mod == modules[i]
           r   == resolve(cfg, grid_free, mod)
       IN  IF r.exc # "none"
              THEN /\ pc' = "error"
                   /\ err' = [kind |-> r.exc, mod |-> i]
                   /\ UNCHANGED <<modules, grid, grid_free, order, placed>>
           ELSE IF r.x = <<>> \/ r.y = <<>>
              THEN /\ pc' = "error"
                   /\ err' = [kind |-> "placement", mod |-> i]
                   /\ UNCHANGED <<modules, grid, grid_free, order, placed>>
           ELSE /\ modules' = [modules EXCEPT ![i].pos_x = r.x, ![i].pos_y = r.y]
                /\ grid' = [p \in DOMAIN grid \cup {<<r.x[1], r.y[1]>>} |->
                              IF p = <<r.x[1], r.y[1]>> THEN i ELSE grid[p]]
                /\ grid_free' = grid_free \ Footprint(r.x[1], r.y[1], mod.width, mod.height)
                /\ order' = Tail(order)
                /\ placed' = Append(placed, i)
                /\ pc' = IF Tail(order) = <<>> THEN "done" ELSE "place"
                /\ err' = err
    /\ UNCHANGED <<cfg, data, call>>

Next == LoadModule \/ StartPlace \/ PlaceModule

Spec == Init /\ [][Next]_vars

----------------------------------------------------------------------------
(* Properties of the placer *)

Range(f) == { f[k] : k \in DOMAIN f }

PlacedSet == Range(placed)

\* footprint of module i at its recorded anchor
FootprintOf(i) ==
    Footprint(modules[i].pos_x[1], modules[i].pos_y[1],
              modules[i].width, modules[i].height)

Cols(i) == modules[i].pos_x[1] .. modules[i].pos_x[1] + modules[i].width - 1

DeclFull(mc) == mc.x # <<>> /\ mc.y # <<>>
DeclAuto(mc) == mc.x = <<>> /\ mc.y = <<>>
DeclSemi(mc) == ~ DeclFull(mc) /\ ~ DeclAuto(mc)

\* C1: any two distinct placed modules have disjoint cell footprints.
C1_NoOverlap ==
    \A i \in PlacedSet : \A j \in PlacedSet :
        i # j => FootprintOf(i) \cap FootprintOf(j) = {}

\* several modules placed, declared with different degrees of freedom
C1_Witness ==
    /\ pc = "done"
    /\ Len(placed) >= 2
    /\ \E i \in PlacedSet : \E j \in PlacedSet :
          /\ Bucket(ModuleSlot(data[i])) # Bucket(ModuleSlot(data[j]))
          /\ modules[i].pos_y = modules[j].pos_y

\* the module list [A 2x1, B 2x1] without fixed coordinates on the 4x2 grid
C2_Scenario ==
    /\ cfg = [x |-> 4, y |-> 2]
    /\ pc \in {"place", "done", "error"}
    /\ data = << [x |-> <<>>, y |-> <<>>, width |-> 2, height |-> 1],
                 [x |-> <<>>, y |-> <<>>, width |-> 2, height |-> 1] >>

At(i, x, y) == i \in PlacedSet /\ modules[i].pos_x = <<x>> /\ modules[i].pos_y = <<y>>

\* C2 as stated: on the 4x2 grid [A 2x1, B 2x1] is placed with A at (0,0)
\* and B at (2,0).
C2_Original ==
    C2_Scenario => /\ pc # "error"
                   /\ pc = "done" => At(1, 0, 0) /\ At(2, 2, 0)

\* C2 amended: on the 4x2 grid [A 2x1, B 2x1] is placed with A at (0,0) and
\* B at (16,0), the first site of the right half.
C2_Amended ==
    C2_Scenario => /\ pc # "error"
                   /\ pc = "done" => At(1, 0, 0) /\ At(2, HalfOfs, 0)

C2_Witness == C2_Scenario /\ pc = "done" /\ Len(placed) = 2

\* The site test of the specification, stated on cells and halves: every cell of the
\* footprint is free, a height-2 site starts on an odd row, a site wider than
\* one cell lies within one 16-column half.
SiteOk(free, w, h, x, y) ==
    /\ Footprint(x, y, w, h) \subseteq free
    /\ h = 2 => y % 2 = 1
    /\ w > 1 => x \div HalfOfs = (x + w - 1) \div HalfOfs

C3_Step ==
    (pc = "place" /\ DeclFull(data[Head(order)])) =>
        LET i  == Head(order)
            mc == data[i]
        IN  IF SiteOk(grid_free, mc.width, mc.height, mc.x[1], mc.y[1])
            THEN /\ placed' = Append(placed, i)
                 /\ modules'[i].pos_x = mc.x /\ modules'[i].pos_y = mc.y
                 /\ <<mc.x[1], mc.y[1]>> \in DOMAIN grid'
                 /\ grid'[<<mc.x[1], mc.y[1]>>] = i
                 /\ pc' # "error"
            ELSE /\ pc' = "error"
                 /\ err' = [kind |-> "placement", mod |-> i]
                 /\ placed' = placed /\ grid' = grid /\ grid_free' = grid_free

\* C3: a fully fixed module is placed at exactly its declared anchor iff its
\* declared site is suitable when it is processed; otherwise the run ends in
\* the placement error naming it and it is placed nowhere.
C3_FixedHonored == [][C3_Step]_vars

\* a fully fixed module failed on a grid cell an earlier module consumed
C3_Witness ==
    /\ pc = "error"
    /\ err.kind = "placement"
    /\ DeclFull(data[err.mod])
    /\ placed # <<>>
    /\ \E c \in Footprint(data[err.mod].x[1], data[err.mod].y[1],
                          data[err.mod].width, data[err.mod].height) :
          c \in gen_grid(cfg) \ grid_free

EvenY(mc) == mc.y # <<>> /\ mc.y[1] % 2 = 0

C4_Inv ==
    \A i \in PlacedSet :
        /\ modules[i].height = 2 => modules[i].pos_y[1] % 2 = 1
        /\ ~ (data[i].height = 2 /\ EvenY(data[i]))

C4_Step ==
    (pc = "place" /\ data[Head(order)].height = 2 /\ EvenY(data[Head(order)])) =>
        /\ pc' = "error"
        /\ err' = [kind |-> "placement", mod |-> Head(order)]
        /\ placed' = placed

\* C4: every placed module of height 2 has an odd anchor row, and a height-2
\* module declaring an even y is never placed: its placement fails.
C4_OddRow == [] C4_Inv /\ [][C4_Step]_vars

\* a height-2 module was placed, and the run then failed on a height-2 module
\* declaring an even row whose site was entirely free
C4_Witness ==
    /\ pc = "error"
    /\ err.kind = "placement"
    /\ data[err.mod].height = 2 /\ EvenY(data[err.mod])
    /\ data[err.mod].x # <<>>
    /\ Footprint(data[err.mod].x[1], data[err.mod].y[1],
                 data[err.mod].width, data[err.mod].height) \subseteq grid_free
    /\ \E i \in PlacedSet : modules[i].height = 2

LeftHalf(c)  == 0 .. (c.x \div 2) - 1
RightHalf(c) == HalfOfs .. HalfOfs + (c.x \div 2) - 1

\* C5: the columns of every placed module wider than one cell are all columns
\* of the left half or all columns of the right half.
C5_NoStraddle ==
    \A i \in PlacedSet :
        modules[i].width > 1 =>
            Cols(i) \subseteq LeftHalf(cfg) \/ Cols(i) \subseteq RightHalf(cfg)

\* a wide module sits in each half of the full-width grid
C5_Witness ==
    /\ pc = "done"
    /\ cfg.x = 2 * HalfOfs
    /\ \E i \in PlacedSet : modules[i].width > 1 /\ Cols(i) \subseteq LeftHalf(cfg)
    /\ \E i \in PlacedSet : modules[i].width > 1 /\ Cols(i) \subseteq RightHalf(cfg)

NoAnchor(r) == r.exc # "none" \/ r.x = <<>> \/ r.y = <<>>

C6_Step ==
    /\ pc # "error"
    /\ (pc = "place" /\ NoAnchor(resolve(cfg, grid_free, modules[Head(order)]))) =>
          /\ pc' = "error"
          /\ err'.mod = Head(order)
          /\ grid_free' = grid_free /\ grid' = grid /\ placed' = placed
          /\ modules' = modules

\* C6: a failing _place_module frees no cell, records no anchor and ends the
\* run: nothing is placed after it and the constructor does not return.
C6_Abort == [][C6_Step]_vars

\* the run failed on a module while a later module, for which a site was
\* free, was still to be processed
C6_Witness ==
    /\ pc = "error"
    /\ err.kind \in {"placement", "NameError"}
    /\ Len(order) >= 2
    /\ err.mod = Head(order)
    /\ ~ NoAnchor(resolve(cfg, grid_free, modules[order[2]]))

----------------------------------------------------------------------------
(* Properties of the track allocation *)

Distributed == call.op = "distribute" /\ call.st # "call"

\* the step in use (fixed, or chosen at line 476) is at least 1 and the
\* window (n_pins - 1) * step + 1 fits the candidate tracks
Feasible ==
    /\ call.args.n_pins >= 2
    /\ call.out.step >= 1
    /\ (call.args.n_pins - 1) * call.out.step + 1 <= Len(call.out.tracks)

\* C7: with a feasible step every coordinate _ply_distribute returns lies in
\* [start, end).
C7_InInterval ==
    (Distributed /\ Feasible) =>
        /\ call.st = "ret"
        /\ \A k \in 1 .. Len(call.out.ret) :
              call.args.start <= call.out.ret[k] /\ call.out.ret[k] < call.args.end

\* C8: with a feasible step _ply_distribute returns exactly n_pins strictly
\* increasing coordinates, consecutive ones step * pitch apart.
C8_ExactSpacing ==
    (Distributed /\ Feasible) =>
        /\ call.st = "ret"
        /\ Len(call.out.ret) = call.args.n_pins
        /\ \A k \in 1 .. Len(call.out.ret) - 1 :
              /\ call.out.ret[k] < call.out.ret[k + 1]
              /\ call.out.ret[k + 1] - call.out.ret[k] = call.out.step * call.args.pitch

\* an automatically chosen step above 1, with candidate tracks left over on
\* both sides of the window
C8_Witness ==
    /\ Distributed /\ Feasible
    /\ call.args.step = 0
    /\ call.args.n_pins >= 3
    /\ call.out.step >= 2
    /\ Len(call.out.tracks) >= (call.args.n_pins - 1) * call.out.step + 3

\* C9: without a fixed step, n_pins >= 2 above the number of candidate tracks
\* ends in the saturation error, an interval without candidate track included.
C9_Saturation ==
    (/\ Distributed
     /\ call.args.step <= 0
     /\ call.args.n_pins >= 2
     /\ call.args.n_pins > Len(call.out.tracks)) =>
        call.st = "raise" /\ call.out.exc = "TooManyTracks"

Finalized == call.op = "finalize" /\ call.st # "call"

NonSkip(pins) == { k \in 1 .. Len(pins) : pins[k] # <<>> }

Skips(pins) == Len(pins) - Cardinality(NonSkip(pins))

DistinctPins(pins) ==
    \A j \in NonSkip(pins) : \A k \in NonSkip(pins) : pins[j] = pins[k] => j = k

\* one entry per slot for a finalize of equal lengths: one entry per non-skip
\* slot, mapped to the track of its position
KeepsEverySlot(pins, tracks, ret) ==
    /\ Cardinality(DOMAIN ret) = Len(pins) - Skips(pins)
    /\ \A k \in NonSkip(pins) : pins[k] \in DOMAIN ret /\ ret[pins[k]] = tracks[k]

\* C10 as stated: for every expanded layout and track list of the same length
\* _ply_finalize keeps one entry per non-skip slot; it fails with the mismatch
\* error when the lengths differ.
C10_Original ==
    Finalized =>
        IF Len(call.args.pins) = Len(call.args.tracks)
        THEN call.st = "ret" /\ KeepsEverySlot(call.args.pins, call.args.tracks, call.out.ret)
        ELSE call.st = "raise" /\ call.out.exc = "Mismatch"

\* C10 amended: the mapping has the non-skip pins as its keys, and one entry
\* per non-skip slot, mapped to the track of its position, when the non-skip
\* identifiers of the expansion are pairwise distinct; it fails with the
\* mismatch error when the lengths differ.
C10_Amended ==
    Finalized =>
        IF Len(call.args.pins) = Len(call.args.tracks)
        THEN /\ call.st = "ret"
             /\ DOMAIN call.out.ret = { call.args.pins[k] : k \in NonSkip(call.args.pins) }
             /\ DistinctPins(call.args.pins) =>
                   KeepsEverySlot(call.args.pins, call.args.tracks, call.out.ret)
        ELSE call.st = "raise" /\ call.out.exc = "Mismatch"

\* a finalize of equal lengths with skips and several distinct pins
C10_Witness ==
    /\ Finalized /\ call.st = "ret"
    /\ DistinctPins(call.args.pins)
    /\ Skips(call.args.pins) >= 1
    /\ Cardinality(DOMAIN call.out.ret) >= 2

----------------------------------------------------------------------------
(* Properties of the expansion *)

Expanded == call.op = "expand" /\ call.st # "call"

\* the number of slots an entry (n, c) stands for
EntryWidth(e) ==
    IF e.c.t = "none" THEN 1 ELSE IF e.c.t = "int" THEN e.c.a ELSE e.c.b

\* the slots of the entries before entry k
RECURSIVE WidthBefore(_, _)
WidthBefore(ply, k) ==
    IF k <= 1 THEN 0 ELSE WidthBefore(ply, k - 1) + EntryWidth(ply[k - 1])

\* the highest index of a bus or sub-range entry
TopIndex(e) == IF e.c.t = "int" THEN e.c.a - 1 ELSE e.c.a + e.c.b - 1

\* the j-th slot (j = 1 first) of a named entry: its name for a scalar, the
\* name indexed from the highest index downwards otherwise
NamedSlot(e, j) ==
    IF e.c.t = "none" THEN e.n[1]
    ELSE e.n[1] \o <<"[">> \o Str(TopIndex(e) - (j - 1)) \o <<"]">>

\* C11: _ply_expand keeps the entry order and emits per entry its name, its
\* indexed names in descending order, or as many skips as its width; the
\* length of the result is the sum of the entry widths, and
\* [(a,None),(b,3),(None,2)] expands to [a, b[2], b[1], b[0], skip, skip].
C11_Expand ==
    (Expanded /\ \A k \in 1 .. Len(call.args.ply) :
                     call.args.ply[k].c.t \in {"none", "int", "tuple"}) =>
        LET ply == call.args.ply
            rv  == call.out.ret
        IN  /\ call.st = "ret"
            /\ Len(rv) = WidthBefore(ply, Len(ply) + 1)
            /\ \A k \in 1 .. Len(ply) : \A j \in 1 .. EntryWidth(ply[k]) :
                  rv[WidthBefore(ply, k) + j] =
                      IF ply[k].n = <<>> THEN <<>> ELSE << NamedSlot(ply[k], j) >>
            /\ ply = << [n |-> << <<"a">> >>, c |-> [t |-> "none", a |-> 0, b |-> 0]],
                        [n |-> << <<"b">> >>, c |-> [t |-> "int", a |-> 3, b |-> 0]],
                        [n |-> <<>>, c |-> [t |-> "int", a |-> 2, b |-> 0]] >>
               => rv = << << <<"a">> >>,
                          << <<"b", "[", "2", "]">> >>,
                          << <<"b", "[", "1", "]">> >>,
                          << <<"b", "[", "0", "]">> >>,
                          <<>>, <<>> >>

\* the layout [(a,None),(b,3),(None,2)] has been expanded to six slots
C11_Witness ==
    /\ Expanded /\ call.st = "ret"
    /\ Len(call.args.ply) = 3
    /\ call.args.ply[1] = [n |-> << <<"a">> >>, c |-> [t |-> "none", a |-> 0, b |-> 0]]
    /\ call.args.ply[2] = [n |-> << <<"b">> >>, c |-> [t |-> "int", a |-> 3, b |-> 0]]
    /\ call.args.ply[3] = [n |-> <<>>, c |-> [t |-> "int", a |-> 2, b |-> 0]]
    /\ Len(call.out.ret) = 6

----------------------------------------------------------------------------
(* Centring of the distributed tracks *)

Abs(v) == IF v < 0 THEN 0 - v ELSE v

\* C12: with a feasible step the midpoint of the smallest and the largest
\* returned coordinate is within one pitch of (start + end) / 2; stated on the
\* doubled values: |first + last - (start + end)| <= 2 * pitch.
C12_Centred ==
    (Distributed /\ Feasible /\ call.st = "ret" /\ call.out.ret # <<>>) =>
        Abs(call.out.ret[1] + call.out.ret[Len(call.out.ret)]
              - (call.args.start + call.args.end)) <= 2 * call.args.pitch

----------------------------------------------------------------------------
(* Semi-fixed modules, load-time validation, outcomes of _ply_distribute *)

\* module i was declared with y only
DeclYOnly(i) == data[i].x = <<>> /\ data[i].y # <<>>

\* the run ended in _place_module on module i
FailedPlacing(i) ==
    /\ pc = "error"
    /\ err.mod = i
    /\ err.kind \notin {"invalid_height", "invalid_width", "invalid_x", "invalid_y"}

\* C13: a module with y given and x free is placed at its y, and ends in the
\* placement error only, and only when no x of the left or right half is
\* suitable at that y.
C13_SemiFixedX ==
    \A i \in 1 .. Len(data) :
        DeclYOnly(i) =>
            /\ i \in PlacedSet => modules[i].pos_y = data[i].y
            /\ FailedPlacing(i) =>
                  /\ err.kind = "placement"
                  /\ \A x \in LeftHalf(cfg) \cup RightHalf(cfg) :
                        ~ SiteOk(grid_free, data[i].width, data[i].height,
                                 x, data[i].y[1])

\* module i passed the checks of load_modules
Validated(i) ==
    /\ i \in 1 .. Len(modules)
    /\ ~ (pc = "error" /\ err.mod = i /\
          err.kind \in {"invalid_height", "invalid_width", "invalid_x", "invalid_y"})

\* C14: a validated module with x and y fixed names a cell of the grid, and a
\* single validated fully fixed 1x1 module is placed.
C14_ValidatedInGrid ==
    /\ \A i \in 1 .. Len(data) :
          (Validated(i) /\ DeclFull(data[i])) =>
              /\ data[i].x[1] % HalfOfs < cfg.x \div 2
              /\ data[i].y[1] >= 0 /\ data[i].y[1] < cfg.y
              /\ <<data[i].x[1], data[i].y[1]>> \in gen_grid(cfg)
    /\ (/\ Len(data) = 1 /\ Validated(1) /\ DeclFull(data[1])
        /\ data[1].width = 1 /\ data[1].height = 1
        /\ pc \in {"done", "error"}) => pc = "done" /\ placed = <<1>>

\* C15: without a fixed step _ply_distribute returns a track list or fails
\* with the saturation error, nothing else; with one pin and a candidate
\* track it returns exactly one coordinate.
C15_Outcomes ==
    (Distributed /\ call.args.step <= 0 /\ call.args.n_pins >= 1) =>
        /\ call.st = "ret" \/ call.out.exc = "TooManyTracks"
        /\ (call.args.n_pins = 1 /\ Len(call.out.tracks) >= 1) =>
              call.st = "ret" /\ Len(call.out.ret) = 1

====
